---- MODULE Spec2Model ----
(***************************************************************************)
(* QA.Stone parser (class QAStoneParser): detection, header parsing, LOD   *)
(* extraction, LOD assessment, token accounting and stone construction,    *)
(* with the parser's two prefix-keyed caches as state.                     *)
(*                                                                         *)
(* A JavaScript string is a sequence of characters (one-character          *)
(* strings).  A JavaScript value is a record [type, val]; val is the       *)
(* character sequence of a string and the printed form of anything else.   *)
(***************************************************************************)
EXTENDS Integers, Sequences, FiniteSets, TLC

(***************************************************************************)
(* Characters and literals of the source                                   *)
(***************************************************************************)
SectionSign == "U+00A7"
BoxLine == "U+2500"
NL == "\n"
WhiteSpace == {" ", "\n", "\t"}
Digits == <<"0", "1", "2", "3", "4", "5", "6", "7", "8", "9">>

OpenMarker == <<SectionSign, "Q", "A", "S", "T", "O", "N", "E", SectionSign>>
CloseMarker == <<SectionSign, "/", "Q", "A", "S", "T", "O", "N", "E", SectionSign>>
LodPrefix == <<"L", "O", "D", "-">>
NotValidMessage == "Not a valid QA.Stone format"

K_border_hash == <<"b", "o", "r", "d", "e", "r", "_", "h", "a", "s", "h">>
K_glow_channel == <<"g", "l", "o", "w", "_", "c", "h", "a", "n", "n", "e", "l">>
K_stone_type == <<"s", "t", "o", "n", "e", "_", "t", "y", "p", "e">>
K_created == <<"c", "r", "e", "a", "t", "e", "d">>
K_source_agent == <<"s", "o", "u", "r", "c", "e", "_", "a", "g", "e", "n", "t">>
K_lod_count == <<"l", "o", "d", "_", "c", "o", "u", "n", "t">>
K_fortune == <<"f", "o", "r", "t", "u", "n", "e">>

HeaderKeyLen == 100
LodKeyLen == 50
HeaderScanLines == 15

(***************************************************************************)
(* JavaScript values                                                       *)
(***************************************************************************)
Str(s) == [type |-> "string", val |-> s]
Null == [type |-> "null", val |-> <<"n", "u", "l", "l">>]
Undefined == [type |-> "undefined", val |-> <<"u", "n", "d", "e", "f", "i", "n", "e", "d">>]
Num(digits) == [type |-> "number", val |-> digits]
Obj == [type |-> "object", val |-> <<"{", "}">>]

\* ToBoolean of a value: null, undefined, 0 and "" are falsy
truthy(v) ==
    CASE v.type = "string" -> v.val # <<>>
      [] v.type = "number" -> v.val # <<"0">>
      [] v.type = "object" -> TRUE
      [] OTHER -> FALSE

(***************************************************************************)
(* String primitives of the JavaScript library, as the source uses them    *)
(***************************************************************************)
Min2(a, b) == IF a <= b THEN a ELSE b
Max2(a, b) == IF a >= b THEN a ELSE b
SetMin(S) == CHOOSE x \in S : \A y \in S : x <= y
SetMax(S) == CHOOSE x \in S : \A y \in S : x >= y

\* s.substring(a, b), 0 <= a <= b
substring(s, a, b) == SubSeq(s, Min2(a, Len(s)) + 1, Min2(b, Len(s)))
\* s.substring(a)
substringFrom(s, a) == SubSeq(s, Min2(a, Len(s)) + 1, Len(s))
startsWith(s, p) == Len(p) <= Len(s) /\ SubSeq(s, 1, Len(p)) = p

RECURSIVE firstNonWs(_, _)
firstNonWs(s, i) ==
    IF i > Len(s) \/ s[i] \notin WhiteSpace THEN i ELSE firstNonWs(s, i + 1)
RECURSIVE lastNonWs(_, _)
lastNonWs(s, i) ==
    IF i < 1 \/ s[i] \notin WhiteSpace THEN i ELSE lastNonWs(s, i - 1)
\* s.trim()
trim(s) == SubSeq(s, firstNonWs(s, 1), lastNonWs(s, Len(s)))

\* s.indexOf(c): 0-based, -1 when absent
indexOf(s, c) ==
    LET hits == {i \in 1..Len(s) : s[i] = c}
    IN  IF hits = {} THEN -1 ELSE SetMin(hits) - 1

RECURSIVE splitFrom(_, _, _)
splitFrom(s, c, from) ==
    LET hits == {i \in from..Len(s) : s[i] = c}
    IN  IF hits = {} THEN <<SubSeq(s, from, Len(s))>>
        ELSE LET p == SetMin(hits)
             IN  <<SubSeq(s, from, p - 1)>> \o splitFrom(s, c, p + 1)
\* s.split(c) for a one-character separator
split(s, c) == splitFrom(s, c, 1)

RECURSIVE join(_, _)
\* parts.join(sep)
join(parts, sep) ==
    IF parts = <<>> THEN <<>>
    ELSE IF Len(parts) = 1 THEN parts[1]
    ELSE parts[1] \o sep \o join(Tail(parts), sep)

digitValue(c) == (CHOOSE i \in 1..10 : Digits[i] = c) - 1
isDigit(c) == \E i \in 1..10 : Digits[i] = c

RECURSIVE digitsValue(_, _, _)
digitsValue(s, i, acc) ==
    IF i > Len(s) \/ ~isDigit(s[i]) THEN acc
    ELSE digitsValue(s, i + 1, acc * 10 + digitValue(s[i]))
\* parseInt(s, 10) || 0: leading white space, an optional sign, then the
\* longest run of digits; NaN (no digit) becomes 0
parseIntOrZero(s) ==
    LET t == SubSeq(s, firstNonWs(s, 1), Len(s))
        neg == t # <<>> /\ t[1] = "-"
        signed == t # <<>> /\ t[1] \in {"-", "+"}
        n == digitsValue(t, IF signed THEN 2 ELSE 1, 0)
    IN  IF neg THEN 0 - n ELSE n

RECURSIVE toDigits(_)
\* String(n) for n >= 0
toDigits(n) ==
    IF n < 10 THEN <<Digits[n + 1]>> ELSE toDigits(n \div 10) \o <<Digits[(n % 10) + 1]>>

(***************************************************************************)
(* isQAStone                                                               *)
(***************************************************************************)
\* a detection that looks for the marker anywhere in the text
isQAStone_includes(content) ==
    IF ~truthy(content) \/ content.type # "string" THEN FALSE
    ELSE \E i \in 1..Len(content.val) : startsWith(substringFrom(content.val, i - 1), OpenMarker)

isQAStone(content) ==
    IF ~truthy(content) \/ content.type # "string" THEN FALSE
    ELSE startsWith(trim(content.val), OpenMarker)

(***************************************************************************)
(* parseHeader                                                             *)
(***************************************************************************)
EmptyHeader ==
    [border_hash |-> Null, glow_channel |-> Null, stone_type |-> Null,
     created |-> Null, source_agent |-> Null, lod_count |-> 0,
     fortune |-> Null, raw_header |-> Str(<<>>)]

\* the switch on key of one header line
setHeaderField(header, line) ==
    LET colonIndex == indexOf(line, ":")
        key == trim(substring(line, 0, colonIndex))
        value == trim(substringFrom(line, colonIndex + 1))
    IN  IF colonIndex <= 0 THEN header
        ELSE CASE key = K_border_hash -> [header EXCEPT !.border_hash = Str(value)]
               [] key = K_glow_channel -> [header EXCEPT !.glow_channel = Str(value)]
               [] key = K_stone_type -> [header EXCEPT !.stone_type = Str(value)]
               [] key = K_created -> [header EXCEPT !.created = Str(value)]
               [] key = K_source_agent -> [header EXCEPT !.source_agent = Str(value)]
               [] key = K_lod_count -> [header EXCEPT !.lod_count = parseIntOrZero(value)]
               [] key = K_fortune -> [header EXCEPT !.fortune = Str(value)]
               [] OTHER -> header

RECURSIVE scanHeader_unbounded(_, _, _)
\* the loop without the bound on i
scanHeader_unbounded(lines, i, header) ==
    IF ~(i < Len(lines)) THEN [header |-> header, headerEndIndex |-> 0]
    ELSE LET line == trim(lines[i + 1])
         IN  IF line = <<BoxLine>> THEN [header |-> header, headerEndIndex |-> i]
             ELSE scanHeader_unbounded(lines, i + 1, setHeaderField(header, line))

RECURSIVE scanHeader(_, _, _)
\* the for loop over lines[i], i < lines.length && i < 15 (i is 0-based):
\* yields the header and headerEndIndex
scanHeader(lines, i, header) ==
    IF ~(i < Len(lines) /\ i < HeaderScanLines) THEN [header |-> header, headerEndIndex |-> 0]
    ELSE LET line == trim(lines[i + 1])
         IN  IF line = <<BoxLine>> THEN [header |-> header, headerEndIndex |-> i]
             ELSE scanHeader(lines, i + 1, setHeaderField(header, line))

\* parseHeader past the cache lookup
computeHeader(s) ==
    LET lines == split(s, NL)
        scan == scanHeader(lines, 0, EmptyHeader)
    IN  [scan.header EXCEPT
            !.raw_header = Str(join(SubSeq(lines, 1, Min2(scan.headerEndIndex + 1, Len(lines))), <<NL>>))]

headerCacheKey(s) == substring(s, 0, HeaderKeyLen)

\* a parseHeader that parses whatever it is given
parseHeader_lenient(p, content) ==
    LET cacheKey == headerCacheKey(content.val)
    IN  IF cacheKey \in DOMAIN p.headerCache
        THEN [p |-> p, threw |-> FALSE, ret |-> p.headerCache[cacheKey]]
        ELSE LET header == computeHeader(content.val)
             IN  [p |-> [p EXCEPT !.headerCache = (cacheKey :> header) @@ @],
                  threw |-> FALSE, ret |-> header]

\* a parseHeader that parses again and replaces the cached entry
parseHeader_refresh(p, content) ==
    IF ~isQAStone(content) THEN [p |-> p, threw |-> TRUE, ret |-> NotValidMessage]
    ELSE LET cacheKey == headerCacheKey(content.val)
             header == computeHeader(content.val)
         IN  [p |-> [p EXCEPT !.headerCache =
                        (cacheKey :> header) @@ [k \in DOMAIN @ \ {cacheKey} |-> @[k]]],
              threw |-> FALSE, ret |-> header]

\* parseHeader(content) on parser p: the parser after the call, whether it
\* threw, and the value returned
parseHeader(p, content) ==
    IF ~isQAStone(content) THEN [p |-> p, threw |-> TRUE, ret |-> NotValidMessage]
    ELSE LET cacheKey == headerCacheKey(content.val)
         IN  IF cacheKey \in DOMAIN p.headerCache
             THEN [p |-> p, threw |-> FALSE, ret |-> p.headerCache[cacheKey]]
             ELSE LET header == computeHeader(content.val)
                  IN  [p |-> [p EXCEPT !.headerCache = (cacheKey :> header) @@ @],
                       threw |-> FALSE, ret |-> header]

(***************************************************************************)
(* parseFortune                                                            *)
(***************************************************************************)
\* parts[i] || null
partOrNull(parts, i) == IF i <= Len(parts) /\ parts[i] # <<>> THEN Str(parts[i]) ELSE Null

parseFortune(fortune) ==
    IF ~truthy(fortune) THEN [channel |-> Null, category |-> Null, complexity |-> Null]
    ELSE LET parts == split(fortune.val, ":")
         IN  [channel |-> partOrNull(parts, 1), category |-> partOrNull(parts, 2),
              complexity |-> partOrNull(parts, 3)]

(***************************************************************************)
(* extractLOD, extractLODsUpTo                                             *)
(***************************************************************************)
lodMarkerOf(level) == LodPrefix \o toDigits(level) \o <<":">>
lodCacheKey(s, level) == substring(s, 0, LodKeyLen) \o <<":">> \o toDigits(level)

RECURSIVE scanLod(_, _, _, _, _)
\* the for-of loop over the lines (i is 1-based): the accumulated lodContent
scanLod(lines, i, lodMarker, inLod, lodContent) ==
    IF i > Len(lines) THEN lodContent
    ELSE LET line == lines[i]
         IN  IF startsWith(line, lodMarker)
             THEN scanLod(lines, i + 1, lodMarker, TRUE, trim(substringFrom(line, Len(lodMarker))))
             ELSE IF inLod
             THEN IF trim(line) = <<BoxLine>> \/ startsWith(line, LodPrefix) \/ line = CloseMarker
                  THEN lodContent
                  ELSE scanLod(lines, i + 1, lodMarker, TRUE, lodContent \o <<NL>> \o line)
             ELSE scanLod(lines, i + 1, lodMarker, FALSE, lodContent)

\* extractLOD past the cache lookup
computeLOD(s, level) == trim(scanLod(split(s, NL), 1, lodMarkerOf(level), FALSE, <<>>))

\* an extractLOD without the pass-through of plain text
extractLOD_unguarded(p, content, level) ==
    LET cacheKey == lodCacheKey(content.val, level)
    IN  IF cacheKey \in DOMAIN p.lodCache
        THEN [p |-> p, threw |-> FALSE, ret |-> Str(p.lodCache[cacheKey])]
        ELSE LET lodContent == computeLOD(content.val, level)
             IN  [p |-> [p EXCEPT !.lodCache = (cacheKey :> lodContent) @@ @],
                  threw |-> FALSE, ret |-> Str(lodContent)]

extractLOD(p, content, level) ==
    IF ~isQAStone(content) THEN [p |-> p, threw |-> FALSE, ret |-> content]
    ELSE LET cacheKey == lodCacheKey(content.val, level)
         IN  IF cacheKey \in DOMAIN p.lodCache
             THEN [p |-> p, threw |-> FALSE, ret |-> Str(p.lodCache[cacheKey])]
             ELSE LET lodContent == computeLOD(content.val, level)
                  IN  [p |-> [p EXCEPT !.lodCache = (cacheKey :> lodContent) @@ @],
                       threw |-> FALSE, ret |-> Str(lodContent)]

\* extractLODsUpTo's loop from `level` on: threads the parser through the
\* extractLOD calls; ret maps each level with a truthy text to that text
RECURSIVE extractLODsFrom(_, _, _, _, _)
extractLODsFrom(p, content, level, maxLevel, result) ==
    IF level > maxLevel THEN [p |-> p, threw |-> FALSE, ret |-> result]
    ELSE LET r == extractLOD(p, content, level)
         IN  extractLODsFrom(r.p, content, level + 1, maxLevel,
                 IF truthy(r.ret) THEN (level :> r.ret) @@ result ELSE result)

\* a loop that stops at the level count the header declares
extractLODsUpTo_declared(p, content, maxLevel) ==
    extractLODsFrom(p, content, 0,
        Min2(maxLevel, computeHeader(content.val).lod_count - 1), <<>>)

extractLODsUpTo(p, content, maxLevel) == extractLODsFrom(p, content, 0, maxLevel, <<>>)

\* the keys of a level map in ascending order (the order JavaScript
\* enumerates integer keys in)
RECURSIVE sortedKeys(_)
sortedKeys(S) ==
    IF S = {} THEN <<>> ELSE LET m == SetMin(S) IN <<m>> \o sortedKeys(S \ {m})

\* Object.values(lods), each value's text
objectValues(lods) ==
    LET keys == sortedKeys(DOMAIN lods) IN [i \in 1..Len(keys) |-> lods[keys[i]].val]

(***************************************************************************)
(* assessRequiredLOD                                                       *)
(***************************************************************************)
C_task == <<"t", "a", "s", "k">>
C_context == <<"c", "o", "n", "t", "e", "x", "t">>
C_handoff == <<"h", "a", "n", "d", "o", "f", "f">>
C_query == <<"q", "u", "e", "r", "y">>
C_data == <<"d", "a", "t", "a">>
X_simple == <<"s", "i", "m", "p", "l", "e">>
X_medium == <<"m", "e", "d", "i", "u", "m">>
X_complex == <<"c", "o", "m", "p", "l", "e", "x">>

\* names every object inherits from Object.prototype: channelRules[name] is
\* the inherited function or object, which is truthy and has no defaultLod
P_constructor == <<"c", "o", "n", "s", "t", "r", "u", "c", "t", "o", "r">>
P_toString == <<"t", "o", "S", "t", "r", "i", "n", "g">>
P_valueOf == <<"v", "a", "l", "u", "e", "O", "f">>
ObjectPrototypeKeys == {P_constructor, P_toString, P_valueOf}

\* numbers as JavaScript values: a level is a number, NaN or undefined
NaN == [type |-> "number", val |-> <<"N", "a", "N">>]
NumberOf(n) == Num(toDigits(n))
isNumber(v) == v.type = "number" /\ v # NaN
numberOf(v) == digitsValue(v.val, 1, 0)
\* Math.min and Math.max of two values that are numbers, NaN or undefined
mathMin(a, b) ==
    IF isNumber(a) /\ isNumber(b) THEN NumberOf(Min2(numberOf(a), numberOf(b))) ELSE NaN
mathMax(a, b) ==
    IF isNumber(a) /\ isNumber(b) THEN NumberOf(Max2(numberOf(a), numberOf(b))) ELSE NaN

\* (this.channelRules[channel] || { defaultLod: 1, ... }).defaultLod
defaultLod(channel) ==
    CASE channel = C_task -> NumberOf(0)
      [] channel = C_context -> NumberOf(1)
      [] channel = C_handoff -> NumberOf(1)
      [] channel = C_query -> NumberOf(0)
      [] channel = C_data -> NumberOf(2)
      [] channel \in ObjectPrototypeKeys -> Undefined
      [] OTHER -> NumberOf(1)

\* the level after the complexity adjustment
complexityLevel(level, complexity) ==
    IF complexity = Str(X_simple) THEN mathMin(level, NumberOf(0))
    ELSE IF complexity = Str(X_complex) THEN mathMax(level, NumberOf(2))
    ELSE level

\* the level after the taskContext.needsFullContext adjustment
fullContextLevel(level, needsFullContext) ==
    IF needsFullContext THEN mathMax(level, NumberOf(2)) ELSE level

\* quickAssessment as a cap of one level
quickLevel_cap(level, quickAssessment) ==
    IF quickAssessment THEN mathMin(level, NumberOf(1)) ELSE level

\* the level after the taskContext.quickAssessment adjustment
quickLevel(level, quickAssessment) == IF quickAssessment THEN NumberOf(0) ELSE level

\* the level after the stone type adjustment
stoneTypeLevel(level, stone_type, complexity) ==
    IF stone_type = Str(C_handoff) /\ complexity # Str(X_simple) THEN mathMax(level, NumberOf(1)) ELSE level

\* a helper spawned only past four levels
spawnHelperOf_above(complexity, lod_count) ==
    complexity # Str(X_simple) /\ complexity = Str(X_complex) /\ lod_count > 4

\* spawnHelper as the complexity branch sets it
spawnHelperOf(complexity, lod_count) ==
    complexity # Str(X_simple) /\ complexity = Str(X_complex) /\ lod_count >= 4

assessRequiredLOD(header, taskContext) ==
    LET fortune == parseFortune(header.fortune)
        channel == IF truthy(header.glow_channel) THEN header.glow_channel.val ELSE C_context
        l1 == complexityLevel(defaultLod(channel), fortune.complexity)
        l2 == fullContextLevel(l1, taskContext.needsFullContext)
        l3 == quickLevel(l2, taskContext.quickAssessment)
        l4 == stoneTypeLevel(l3, header.stone_type, fortune.complexity)
    IN  [level |-> l4,
         spawnHelper |-> spawnHelperOf(fortune.complexity, header.lod_count),
         fortune |-> fortune,
         channel |-> channel]

(***************************************************************************)
(* progressiveLoad                                                         *)
(***************************************************************************)
\* the loop over the levels counting down from maxLevel
levelTexts_descending(lods, maxLevel) ==
    LET keys == sortedKeys({l \in DOMAIN lods : l <= maxLevel})
    IN  [i \in 1..Len(keys) |-> lods[keys[Len(keys) + 1 - i]].val]

\* the texts of the levels 0..maxLevel present in lods, ascending
levelTexts(lods, maxLevel) ==
    LET keys == sortedKeys({l \in DOMAIN lods : l <= maxLevel})
    IN  [i \in 1..Len(keys) |-> lods[keys[i]].val]

progressiveLoad(p, content, maxLevel) ==
    IF ~isQAStone(content)
    THEN [p |-> p, threw |-> FALSE,
          ret |-> [content |-> content, loadedLevel |-> 0 - 1, isStone |-> FALSE]]
    ELSE LET h == parseHeader(p, content)
             l == extractLODsUpTo(h.p, content, maxLevel)
         IN  IF h.threw THEN h
             ELSE [p |-> l.p, threw |-> FALSE,
                   ret |-> [content |-> Str(join(levelTexts(l.ret, maxLevel), <<NL, NL>>)),
                            loadedLevel |-> maxLevel, isStone |-> TRUE,
                            header |-> h.ret, lods |-> l.ret]]

(***************************************************************************)
(* estimateTokens, getTokenSavings                                         *)
(***************************************************************************)
RECURSIVE runEnd(_, _, _)
\* the first index past the run of characters of C that starts at i
runEnd(s, C, i) == IF i <= Len(s) /\ s[i] \in C THEN runEnd(s, C, i + 1) ELSE i

\* the first index >= from holding a character of C, 0 when there is none
nextIn(s, C, from) ==
    IF \E i \in from..Len(s) : s[i] \in C
    THEN CHOOSE i \in from..Len(s) : s[i] \in C /\ \A j \in from..(i - 1) : s[j] \notin C
    ELSE 0

RECURSIVE splitRunsFrom(_, _, _, _, _)
splitRunsFrom(s, C, minRun, from, scan) ==
    LET p == nextIn(s, C, scan)
    IN  IF p = 0 THEN <<SubSeq(s, from, Len(s))>>
        ELSE LET e == runEnd(s, C, p)
             IN  IF e - p >= minRun
                 THEN <<SubSeq(s, from, p - 1)>> \o splitRunsFrom(s, C, minRun, e, e)
                 ELSE splitRunsFrom(s, C, minRun, from, e)
\* m ends a run of at least minRun characters of C inside lo..hi and a
\* piece follows it
isCut(s, C, minRun, lo, hi, m) ==
    /\ m < hi /\ s[m + 1] \notin C
    /\ m - minRun + 1 >= lo
    /\ \A k \in (m - minRun + 1)..m : s[k] \in C

RECURSIVE splitRunsIn(_, _, _, _, _)
\* the pieces of s[lo..hi], a piece starting at lo: the pieces before and
\* after a separator near the middle, and the scan from the left when
\* no separator is followed by a piece
splitRunsIn(s, C, minRun, lo, hi) ==
    LET mid == (lo + hi) \div 2
        after == {m \in mid..(hi - 1) : isCut(s, C, minRun, lo, hi, m)}
        before == {m \in lo..(mid - 1) : isCut(s, C, minRun, lo, hi, m)}
    IN  IF after = {} /\ before = {}
        THEN splitRunsFrom(SubSeq(s, lo, hi), C, minRun, 1, 1)
        ELSE LET m == IF after # {} THEN SetMin(after) ELSE SetMax(before)
                 left == splitRunsIn(s, C, minRun, lo, m)
             IN  SubSeq(left, 1, Len(left) - 1) \o splitRunsIn(s, C, minRun, m + 1, hi)

\* s.split(/[C]+/) (minRun 1) and s.split(/cc+/) (minRun 2): the pieces
\* between the maximal runs, of at least minRun characters, of C
splitRuns(s, C, minRun) == splitRunsIn(s, C, minRun, 1, Len(s))

\* Math.ceil(words * 0.75), of a string or a falsy value
estimateTokens(content) ==
    IF ~truthy(content) THEN 0
    ELSE LET words == Len(splitRuns(content.val, WhiteSpace, 1))
         IN  (words * 3 + 3) \div 4

\* estimateTokens(content) as a call: a truthy value that is no string has
\* no split method, and the call raises a TypeError
estimateTokensCall(p, content) ==
    IF truthy(content) /\ content.type # "string"
    THEN [p |-> p, threw |-> TRUE, ret |-> "TypeError"]
    ELSE [p |-> p, threw |-> FALSE, ret |-> estimateTokens(content)]

\* Math.round((saved / fullTokens) * 100), halves rounded up
percentageOf(saved, fullTokens) ==
    IF fullTokens > 0 THEN (200 * saved + fullTokens) \div (2 * fullTokens) ELSE 0

getTokenSavings(p, content, loadedLevel) ==
    IF ~isQAStone(content)
    THEN [p |-> p, threw |-> FALSE,
          ret |-> [saved |-> 0, percentage |-> 0, headerTokens |-> 0, fullTokens |-> 0]]
    ELSE LET h == parseHeader(p, content)
             headerTokens == estimateTokens(h.ret.raw_header)
             allLods == extractLODsUpTo(h.p, content, 3)
             fullTokens == estimateTokens(Str(join(objectValues(allLods.ret), <<NL, NL>>)))
             loadedLods == extractLODsUpTo(allLods.p, content, loadedLevel)
             loadedTokens ==
                 estimateTokens(Str(join(objectValues(loadedLods.ret), <<NL, NL>>))) + headerTokens
             saved == fullTokens - loadedTokens
         IN  IF h.threw THEN h
             ELSE [p |-> loadedLods.p, threw |-> FALSE,
                   ret |-> [saved |-> saved, percentage |-> percentageOf(saved, fullTokens),
                            headerTokens |-> headerTokens, loadedTokens |-> loadedTokens,
                            fullTokens |-> fullTokens]]

(***************************************************************************)
(* buildStone: _generateHash, _generateLODs, _calculateFortune             *)
(***************************************************************************)
Ascii ==
    <<" ", "!", "\"", "#", "$", "%", "&", "'", "(", ")", "*", "+", ",", "-",
      ".", "/", "0", "1", "2", "3", "4", "5", "6", "7", "8", "9", ":", ";",
      "<", "=", ">", "?", "@", "A", "B", "C", "D", "E", "F", "G", "H", "I",
      "J", "K", "L", "M", "N", "O", "P", "Q", "R", "S", "T", "U", "V", "W",
      "X", "Y", "Z", "[", "\\", "]", "^", "_", "U+0060", "a", "b", "c", "d", "e",
      "f", "g", "h", "i", "j", "k", "l", "m", "n", "o", "p", "q", "r", "s",
      "t", "u", "v", "w", "x", "y", "z", "{", "|", "}", "~">>
Hex == <<"0", "1", "2", "3", "4", "5", "6", "7", "8", "9", "a", "b", "c", "d", "e", "f">>

\* content.charCodeAt(i)
charCodeAt(c) ==
    CASE c = NL -> 10
      [] c = "\t" -> 9
      [] c = SectionSign -> 167
      [] c = BoxLine -> 9472
      [] OTHER -> 31 + (CHOOSE i \in 1..Len(Ascii) : Ascii[i] = c)

\* A 32-bit integer is held as its two's-complement bits in two 16-bit
\* halves [hi, lo].
Half == 65536

\* hash << 5
shiftLeft5(h) ==
    [lo |-> (h.lo * 32) % Half, hi |-> (h.hi * 32 + (h.lo * 32) \div Half) % Half]
\* the bits of a - b
minus(a, b) ==
    LET borrow == IF a.lo < b.lo THEN 1 ELSE 0
    IN  [lo |-> (a.lo - b.lo + Half) % Half, hi |-> (a.hi - b.hi - borrow + 2 * Half) % Half]
\* the bits of a + code, code a UTF-16 code unit
plus(a, code) ==
    [lo |-> (a.lo + code) % Half, hi |-> (a.hi + (a.lo + code) \div Half) % Half]

\* a shift by four bits
hashStep_shift4(h, code) ==
    plus(minus([lo |-> (h.lo * 16) % Half, hi |-> (h.hi * 16 + (h.lo * 16) \div Half) % Half], h), code)

\* hash = ((hash << 5) - hash) + char; hash = hash & hash
hashStep(h, code) == plus(minus(shiftLeft5(h), h), code)

RECURSIVE hashLoop(_, _, _, _)
\* the for loop over the characters i..j of s (1-based), in order, from
\* accumulator h: the loop over the first half, then, from the pair of
\* 16-bit halves it leaves, the loop over the second
hashLoop(s, i, j, h) ==
    IF i > j THEN h
    ELSE IF i = j THEN hashStep(h, charCodeAt(s[i]))
    ELSE LET m == (i + j) \div 2
             first == hashLoop(s, i, m, h)
         IN  IF first \in [lo : Nat, hi : Nat] THEN hashLoop(s, m + 1, j, first) ELSE first

\* Math.abs of the signed 32-bit integer with bits h, as an unsigned number
absBits(h) ==
    IF h.hi < Half \div 2 THEN h
    ELSE [lo |-> (Half - h.lo) % Half,
          hi |-> (Half - 1 - h.hi + (IF h.lo = 0 THEN 1 ELSE 0)) % Half]

hex4(n) ==
    <<Hex[(n \div 4096) + 1], Hex[((n \div 256) % 16) + 1],
      Hex[((n \div 16) % 16) + 1], Hex[(n % 16) + 1]>>

RECURSIVE stripZeros(_)
stripZeros(s) == IF Len(s) > 1 /\ s[1] = "0" THEN stripZeros(Tail(s)) ELSE s
\* n.toString(16)
toString16(h) == stripZeros(hex4(h.hi) \o hex4(h.lo))
\* no padding
padStart_none(s, n, c) == s

\* s.padStart(n, c)
padStart(s, n, c) == IF Len(s) >= n THEN s ELSE [i \in 1..(n - Len(s)) |-> c] \o s

generateHash(s) ==
    substring(padStart(toString16(absBits(hashLoop(s, 1, Len(s), [hi |-> 0, lo |-> 0]))), 8, "0"), 0, 8)

\* the elements of parts whose trimmed text is not empty
nonBlank(parts) == SelectSeq(parts, LAMBDA x : trim(x) # <<>>)

generateLODs(s) ==
    LET sentences == nonBlank(splitRuns(s, {".", "!", "?"}, 1))
        paragraphs == nonBlank(splitRuns(s, {NL}, 2))
        first0 == IF sentences # <<>> THEN sentences[1] ELSE substring(s, 0, 100)
        lod0 == IF Len(sentences) > 1 /\ Len(first0) < 50
                THEN first0 \o <<".", " ">> \o sentences[2] ELSE first0
        first1 == IF paragraphs # <<>> THEN paragraphs[1] ELSE substring(s, 0, 500)
        lod1 == IF Len(first1) < 100 /\ Len(paragraphs) > 1
                THEN first1 \o <<NL, NL>> \o paragraphs[2] ELSE first1
    IN  (0 :> Str(substring(lod0, 0, 150))) @@ (1 :> Str(substring(lod1, 0, 500)))
        @@ (2 :> Str(s)) @@ (3 :> Str(<<>>))

Upper == SubSeq(Ascii, 34, 59)
Lower == SubSeq(Ascii, 66, 91)
WordChars == {Ascii[i] : i \in (17..26) \cup (34..59) \cup (66..91)} \cup {"_"}
toLowerCase(s) ==
    [i \in 1..Len(s) |->
        IF \E k \in 1..26 : Upper[k] = s[i]
        THEN Lower[CHOOSE k \in 1..26 : Upper[k] = s[i]] ELSE s[i]]

\* a test without the word boundaries
hasWord_anywhere(s, words) ==
    \E w \in words : \E i \in 1..(Len(s) - Len(w) + 1) : SubSeq(s, i, i + Len(w) - 1) = w

\* /\b(w1|w2|...)\b/.test(s)
hasWord(s, words) ==
    \E w \in words : \E i \in 1..(Len(s) - Len(w) + 1) :
        /\ SubSeq(s, i, i + Len(w) - 1) = w
        /\ (i = 1 \/ s[i - 1] \notin WordChars)
        /\ (i + Len(w) > Len(s) \/ s[i + Len(w)] \notin WordChars)

W_repo == {<<"g", "i", "t">>, <<"r", "e", "p", "o">>, <<"g", "i", "t", "h", "u", "b">>,
           <<"c", "o", "m", "m", "i", "t">>}
W_api == {<<"a", "p", "i">>, <<"e", "n", "d", "p", "o", "i", "n", "t">>, <<"r", "o", "u", "t", "e">>}
W_database == {<<"d", "a", "t", "a", "b", "a", "s", "e">>, <<"s", "q", "l">>, <<"q", "u", "e", "r", "y">>}
W_ui == {<<"u", "i">>, <<"c", "o", "m", "p", "o", "n", "e", "n", "t">>, <<"s", "t", "y", "l", "e">>}
W_test == {<<"t", "e", "s", "t">>, <<"s", "p", "e", "c">>, <<"a", "s", "s", "e", "r", "t">>}

calculateFortune(s, channel) ==
    LET contentLower == toLowerCase(s)
        category ==
            IF hasWord(contentLower, W_repo) THEN <<"r", "e", "p", "o">>
            ELSE IF hasWord(contentLower, W_api) THEN <<"a", "p", "i">>
            ELSE IF hasWord(contentLower, W_database) THEN <<"d", "a", "t", "a", "b", "a", "s", "e">>
            ELSE IF hasWord(contentLower, W_ui) THEN <<"u", "i">>
            ELSE IF hasWord(contentLower, W_test) THEN <<"t", "e", "s", "t">>
            ELSE <<"g", "e", "n", "e", "r", "a", "l">>
        wordCount == Len(splitRuns(s, WhiteSpace, 1))
        complexity == IF wordCount > 200 THEN X_complex
                      ELSE IF wordCount > 50 THEN X_medium ELSE X_simple
    IN  channel \o <<":">> \o category \o <<":">> \o complexity

D_clipboard == <<"c", "l", "i", "p", "b", "o", "a", "r", "d">>
D_user == <<"u", "s", "e", "r">>

\* a destructured option with its default
optionOr(v, default) == IF v.type = "undefined" THEN default ELSE v.val

headerLine(key, value) == <<NL>> \o key \o <<":", " ">> \o value

RECURSIVE lodBlocks(_, _)
\* the loop for (level = 0; level <= 3; level++) appending the LOD blocks
lodBlocks(lodLevels, level) ==
    IF level > 3 THEN <<>>
    ELSE (IF level \in DOMAIN lodLevels /\ truthy(lodLevels[level])
          THEN <<NL>> \o lodMarkerOf(level) \o <<" ">> \o lodLevels[level].val \o <<NL, BoxLine>>
          ELSE <<>>) \o lodBlocks(lodLevels, level + 1)

\* Object.values(lodLevels).filter(v => v).length
lodCountOf(lodLevels) == Cardinality({k \in DOMAIN lodLevels : truthy(lodLevels[k])})

\* buildStone(options) at the time whose ISO string is now.  options.lods
\* is Null or the object of a level map; a content that is no string raises
\* a TypeError.
buildStone(options, now) ==
    IF options.content.type # "string" THEN [threw |-> TRUE, ret |-> "TypeError"]
    ELSE LET content == options.content.val
             glow_channel == optionOr(options.glow_channel, C_context)
             stone_type == optionOr(options.stone_type, D_clipboard)
             source_agent == optionOr(options.source_agent, D_user)
             border_hash == generateHash(content)
             lodLevels == IF truthy(options.lods) THEN options.lods.val ELSE generateLODs(content)
             fortune == calculateFortune(content, glow_channel)
             stone == OpenMarker
                      \o headerLine(K_border_hash, border_hash)
                      \o headerLine(K_glow_channel, glow_channel)
                      \o headerLine(K_stone_type, stone_type)
                      \o headerLine(K_created, now)
                      \o headerLine(K_source_agent, source_agent)
                      \o headerLine(K_lod_count, toDigits(lodCountOf(lodLevels)))
                      \o headerLine(K_fortune, fortune)
                      \o <<NL, BoxLine>>
                      \o lodBlocks(lodLevels, 0)
                      \o <<NL>> \o CloseMarker
         IN  [threw |-> FALSE, ret |-> Str(stone)]

(***************************************************************************)
(* clearCache, and the parser as constructed                               *)
(***************************************************************************)
NewParser == [lodCache |-> <<>>, headerCache |-> <<>>]
clearCache(p) == [p |-> NewParser, threw |-> FALSE, ret |-> Undefined]

(***************************************************************************)
(* Inputs                                                                  *)
(***************************************************************************)
MaxContentLen == 2
MaxCalls == 2
MaxLodCount == 4
MaxHeaderLines == 3
MaxBodyLines == 3

ContentChars == {"a", " ", ".", "\n"}

RECURSIVE stringsUpTo(_, _)
\* the strings over the characters C of length at most n
stringsUpTo(C, n) ==
    IF n = 0 THEN {<<>>}
    ELSE LET shorter == stringsUpTo(C, n - 1)
         IN  shorter \cup {Append(s, c) : s \in shorter, c \in C}

\* contents whose accumulator wraps: to the most negative 32-bit value, and
\* to a negative value
WrappingContents == {<<"G", "y", "d", "Z", "G", "_">>, <<"a", "a", "a", "a", "a", "a", "a">>}

Contents == stringsUpTo(ContentChars, MaxContentLen) \cup WrappingContents

\* the clock readings of new Date().toISOString()
Clock == {<<"2", "0", "2", "6", "-", "1", "1", "-", "0", "4", "T", "0", "2", ":",
            "1", "1", ":", "0", "0", ".", "0", "0", "0", "Z">>,
          <<"2", "0", "2", "6", "-", "1", "1", "-", "0", "4", "T", "0", "2", ":",
            "1", "1", ":", "0", "0", ".", "0", "0", "1", "Z">>}

optionsOf(content, channel, agent, lods) ==
    [content |-> Str(content), glow_channel |-> channel, stone_type |-> Undefined,
     source_agent |-> agent, lods |-> lods]

Levels == 0..3

\* a lods option: the object holding the level map
Lods(map) == [type |-> "object", val |-> map]
SuppliedLods == Lods(0 :> Str(<<"b">>))
\* a level map with an empty level and a key past level 3
ExtraLods == Lods(0 :> Str(<<"b">>) @@ 1 :> Str(<<>>) @@ 4 :> Str(<<"c">>))

\* a level map without level 0
LaterLods == Lods(1 :> Str(<<"b">>))

\* n words, one space between two words
wordsOf(n) == [i \in 1..(2 * n - 1) |-> IF i % 2 = 1 THEN "a" ELSE " "]

\* contents with keywords, as words and inside words, and contents at the
\* word counts where the complexity changes
FortuneContents ==
    {<<"a", " ", "G", "i", "t", ".">>,
     <<"a", "p", "i", " ", "t", "e", "s", "t">>,
     <<"s", "q", "l", "\n", "u", "i">>,
     <<"U", "I">>,
     <<"s", "p", "e", "c">>,
     <<"a", "p", "i", "s">>,
     <<"u", "i", "_", "x">>}
    \cup {wordsOf(n) : n \in {50, 51, 200, 201}}

\* a content with a line that begins like a LOD block
MarkerContents == {<<"a", "\n", "L", "O", "D", "-", "3", ":", " ", "b">>}

\* the options drawn for one buildStone call
BuildOptions ==
    {optionsOf(c, ch, Undefined, l) :
        c \in Contents, ch \in {Undefined, Str(C_task), Str(C_data)}, l \in {Null, SuppliedLods, ExtraLods}}
    \cup {optionsOf(c, ch, Undefined, Null) :
             c \in FortuneContents, ch \in {Undefined, Str(C_task), Str(C_data)}}
    \cup {optionsOf(<<"a">>, Undefined, Undefined, LaterLods)}
    \cup {optionsOf(c, Undefined, Undefined, Null) : c \in MarkerContents}

\* a file of the repository's stones, as a parser of a page session meets them
BaseOptions == optionsOf(<<"a">>, Str(C_task), Undefined, Null)
BaseStone == buildStone(BaseOptions, CHOOSE t \in Clock : TRUE).ret
\* the same content with caller-supplied LODs
SuppliedStone ==
    buildStone([BaseOptions EXCEPT !.lods = SuppliedLods], CHOOSE t \in Clock : TRUE).ret
\* the same content on another channel
DataStone ==
    buildStone([BaseOptions EXCEPT !.glow_channel = Str(C_data)], CHOOSE t \in Clock : TRUE).ret
\* BaseStone with a second glow_channel line after its source_agent line
RelabelledStone ==
    LET lines == split(BaseStone.val, NL)
    IN  Str(join(SubSeq(lines, 1, 6) \o <<headerLine(K_glow_channel, C_data)>>
                 \o SubSeq(lines, 7, Len(lines)), <<NL>>))
\* BaseStone cut off inside its LOD-1 block (no separator, no close marker)
TruncatedStone ==
    LET lines == split(BaseStone.val, NL) IN Str(join(SubSeq(lines, 1, 12), <<NL>>))

\* BaseStone after white space
IndentedStone == Str(<<" ", NL>> \o BaseStone.val)

\* the text of the lines after an open marker line
stoneOfLines(lines) == Str(join(<<OpenMarker>> \o lines, <<NL>>))

\* header lines: a recognised key, a count that is no number, a count, an
\* unrecognised key, a value with colons, the separator
HeaderLineChoices ==
    {K_glow_channel \o <<":", " ">> \o C_data,
     K_lod_count \o <<":", " ", "x">>,
     K_lod_count \o <<":", " ", "2">>,
     <<"z", "z", ":", " ", "1">>,
     <<" ">> \o K_fortune \o <<" ", ":", "a", ":", "b", ":", "c", " ">>,
     <<BoxLine>>}
\* filler lines that bring the lines drawn up to the scan bound
Padding == [i \in 1..(HeaderScanLines - MaxHeaderLines) |-> <<"x">>]
\* stones whose header is up to MaxHeaderLines drawn lines, at the start of
\* the text or across the scan bound
HeaderStones ==
    {stoneOfLines(pad \o ls) :
        pad \in {<<>>, Padding}, ls \in stringsUpTo(HeaderLineChoices, MaxHeaderLines)}

\* body lines: LOD markers, text, the separator, the close marker
BodyLineChoices ==
    {lodMarkerOf(0) \o <<" ", "a">>,
     lodMarkerOf(0) \o <<" ", "b">>,
     lodMarkerOf(1) \o <<" ", "c">>,
     <<"d">>,
     <<BoxLine>>,
     CloseMarker}
\* stones with a two-line header and up to MaxBodyLines drawn body lines
LodStones ==
    {stoneOfLines(<<K_lod_count \o <<":", " ", "1">>, <<BoxLine>>>> \o ls) :
        ls \in stringsUpTo(BodyLineChoices, MaxBodyLines)}

HandMadeStones == {RelabelledStone, TruncatedStone, IndentedStone, Str(OpenMarker)}
PlainTexts ==
    {Str(<<>>), Str(<<"a">>), Str(<<" ", "a">>), Str(<<" ">>), Str(SubSeq(OpenMarker, 1, 8)),
     Str(<<"a">> \o OpenMarker), Str(CloseMarker)}
NonStrings == {Null, Undefined, Num(<<"0">>), Num(<<"5">>), Obj}

\* what the calls of a page session are made on
SessionTexts == {BaseStone, SuppliedStone, DataStone, RelabelledStone, Str(<<"a">>), Null}
SessionLevels == {0, 2}

Complexities == {X_simple, X_medium, X_complex}
Channels == {C_task, C_context, C_handoff, C_query, C_data}
fortuneOf(complexity) == Str(C_task \o <<":">> \o <<"g", "e", "n", "e", "r", "a", "l">> \o <<":">> \o complexity)

\* headers handed to assessRequiredLOD: every channel (known, unknown,
\* missing), complexity (or none), stone type and declared lod_count
AssessHeaders ==
    {[EmptyHeader EXCEPT !.glow_channel = ch, !.fortune = f, !.stone_type = st, !.lod_count = n] :
        ch \in {Str(c) : c \in Channels} \cup {Str(<<"z">>), Str(P_constructor), Null},
        f \in {fortuneOf(x) : x \in Complexities} \cup {Str(C_task), Null},
        st \in {Str(C_handoff), Str(D_clipboard), Null},
        n \in 0..MaxLodCount}
TaskContexts == [needsFullContext : BOOLEAN, quickAssessment : BOOLEAN]

(***************************************************************************)
(* State: one parser, the last call made on it, and the input of the run   *)
(***************************************************************************)
VARIABLES lodCache, headerCache, calls, op, args, ret, threw, input

\* the EmailForAiClient of the page, its requests in flight, and the backend
VARIABLES offlineMode, pendingMessages, localCache, cooledDown, health, sending, chatting,
          syncing, accepted, reachable, created
clientVars == <<offlineMode, pendingMessages, localCache, cooledDown, health, sending,
                chatting, syncing, accepted, reachable, created>>

\* the AnalyticsTracker of the page and its storeAnalytics requests in flight
VARIABLES events, syncPending, storing, stored, tracked
trackerVars == <<events, syncPending, storing, stored, tracked>>

parserVars == <<lodCache, headerCache, calls, threw, input>>
vars == <<lodCache, headerCache, calls, op, args, ret, threw, input, clientVars, trackerVars>>

Parser == [lodCache |-> lodCache, headerCache |-> headerCache]

\* The input is either a page session (the texts, options, headers and
\* fortunes its calls are made on, MaxCalls calls in any order) or one drawn
\* argument: the options of one buildStone call followed by one call on the
\* stone built, or the argument of one call on the new parser.
Session ==
    [kind |-> "session", texts |-> SessionTexts, levels |-> SessionLevels,
     options |-> {BaseOptions}, headers |-> {computeHeader(BaseStone.val)},
     fortunes |-> {Str(C_task), Null}]

GivenTexts ==
    CASE input.kind = "session" -> IF calls < MaxCalls THEN input.texts ELSE {}
      [] input.kind = "text" -> IF calls = 0 THEN {input.text} ELSE {}
      [] input.kind = "options" -> IF op = "buildStone" /\ ~threw THEN {ret} ELSE {}
      [] OTHER -> {}
GivenLevels == IF input.kind = "session" THEN input.levels ELSE Levels
GivenOptions ==
    CASE input.kind = "session" -> IF calls < MaxCalls THEN input.options ELSE {}
      [] input.kind = "options" -> IF calls = 0 THEN {input.options} ELSE {}
      [] OTHER -> {}
GivenHeaders ==
    CASE input.kind = "session" -> IF calls < MaxCalls THEN input.headers ELSE {}
      [] input.kind = "header" -> IF calls = 0 THEN {input.header} ELSE {}
      [] OTHER -> {}
GivenFortunes ==
    CASE input.kind = "session" -> IF calls < MaxCalls THEN input.fortunes ELSE {}
      [] input.kind = "header" -> IF calls = 0 THEN {input.header.fortune} ELSE {}
      [] OTHER -> {}

\* a call that returned r: the parser it left, and the record of the call
Step(name, a, r) ==
    /\ op' = name
    /\ args' = a
    /\ ret' = r.ret
    /\ threw' = r.threw
    /\ lodCache' = r.p.lodCache
    /\ headerCache' = r.p.headerCache
    /\ calls' = calls + 1
    /\ UNCHANGED <<input, clientVars, trackerVars>>

\* a call of a method that does not touch the parser
pure(p, r) == [p |-> p, threw |-> FALSE, ret |-> r]

IsQAStone ==
    \E v \in GivenTexts : Step("isQAStone", [content |-> v], pure(Parser, isQAStone(v)))
ParseHeader ==
    \E v \in GivenTexts : Step("parseHeader", [content |-> v], parseHeader(Parser, v))
ParseFortune ==
    \E f \in GivenFortunes : Step("parseFortune", [fortune |-> f], pure(Parser, parseFortune(f)))
ExtractLOD ==
    \E v \in GivenTexts, level \in GivenLevels :
        Step("extractLOD", [content |-> v, level |-> level], extractLOD(Parser, v, level))
ExtractLODsUpTo ==
    \E v \in GivenTexts, maxLevel \in GivenLevels :
        Step("extractLODsUpTo", [content |-> v, level |-> maxLevel],
             extractLODsUpTo(Parser, v, maxLevel))
AssessRequiredLOD ==
    \E h \in GivenHeaders, c \in TaskContexts :
        Step("assessRequiredLOD", [header |-> h, taskContext |-> c],
             pure(Parser, assessRequiredLOD(h, c)))
ProgressiveLoad ==
    \E v \in GivenTexts, maxLevel \in GivenLevels :
        Step("progressiveLoad", [content |-> v, level |-> maxLevel],
             progressiveLoad(Parser, v, maxLevel))
EstimateTokens ==
    \E v \in GivenTexts : Step("estimateTokens", [content |-> v], estimateTokensCall(Parser, v))
GetTokenSavings ==
    \E v \in GivenTexts, loadedLevel \in GivenLevels :
        Step("getTokenSavings", [content |-> v, level |-> loadedLevel],
             getTokenSavings(Parser, v, loadedLevel))
BuildStone ==
    \E o \in GivenOptions, now \in Clock :
        LET b == buildStone(o, now)
        IN  Step("buildStone", [options |-> o, now |-> now],
                 [p |-> Parser, threw |-> b.threw, ret |-> b.ret])
ClearCache ==
    /\ \/ input.kind = "session" /\ calls < MaxCalls
       \/ input.kind = "text" /\ calls = 1
    /\ Step("clearCache", <<>>, clearCache(Parser))

(***************************************************************************)
(* EmailForAiClient: sendMessage, chat, checkHealth, syncPendingMessages.   *)
(* A message is its tracking id; a request in flight settles in a later     *)
(* step.                                                                    *)
(***************************************************************************)
MaxMessages == 2
InboxCap == 100

\* how a request settles: an ok response, an ok response whose body cannot
\* be read (response.json() rejects), a response that is not ok, a rejected
\* fetch
Settlements == {"ok", "unreadable", "notOk", "error"}
\* a reachable backend answers every request ok
SettlementsNow == IF reachable THEN {"ok"} ELSE Settlements

Client ==
    [offlineMode |-> offlineMode, pendingMessages |-> pendingMessages,
     localCache |-> localCache, sending |-> sending, syncing |-> syncing,
     accepted |-> accepted]

storeLocalMessage(cache, m) ==
    LET inbox == Append(cache.inboxes, m)
    IN  [inboxes |-> IF Len(inbox) > InboxCap
                     THEN SubSeq(inbox, Len(inbox) - InboxCap + 1, Len(inbox)) ELSE inbox,
         pending |-> Append(cache.pending, m)]

removePendingFromCache(cache, m) ==
    [cache EXCEPT !.pending = SelectSeq(@, LAMBDA id : id # m)]

\* the offline fallback of sendMessage
storedAndQueued(c, m) ==
    [c EXCEPT !.localCache = storeLocalMessage(@, m),
              !.pendingMessages = Append(@, m)]

\* sendMessage up to its await
sendMessage(c, m) ==
    IF ~c.offlineMode THEN [c EXCEPT !.sending = @ \cup {m}] ELSE storedAndQueued(c, m)

\* sendMessage from the settling of its fetch on
sendMessageSettled(c, m, how) ==
    LET d == [c EXCEPT !.sending = @ \ {m},
                       !.accepted[m] = IF how \in {"ok", "unreadable"} THEN @ + 1 ELSE @]
    IN  CASE how = "ok" -> d
          [] how = "notOk" -> storedAndQueued(d, m)
          [] OTHER -> storedAndQueued([d EXCEPT !.offlineMode = TRUE], m)

\* syncPendingMessages up to its first await
syncPendingMessages(c) ==
    IF c.offlineMode \/ c.pendingMessages = <<>> THEN c
    ELSE [c EXCEPT !.pendingMessages = <<>>,
                   !.syncing = Append(@, [current |-> Head(c.pendingMessages),
                                          rest |-> Tail(c.pendingMessages)])]

\* seq without its i-th element
without(seq, i) == SubSeq(seq, 1, i - 1) \o SubSeq(seq, i + 1, Len(seq))

\* run i of syncPendingMessages from the settling of its fetch to its next
\* await, or to its end
syncSettled(c, i, how) ==
    LET run == c.syncing[i]
        m == run.current
        d == IF how \in {"ok", "unreadable"}
             THEN [c EXCEPT !.accepted[m] = @ + 1,
                            !.localCache = removePendingFromCache(@, m)]
             ELSE [c EXCEPT !.pendingMessages = Append(@, m)]
    IN  IF run.rest = <<>> THEN [d EXCEPT !.syncing = without(@, i)]
        ELSE [d EXCEPT !.syncing[i] = [current |-> Head(run.rest), rest |-> Tail(run.rest)]]

\* checkHealth from the settling of its fetch on
checkHealthSettled(c, how) ==
    CASE how \in {"ok", "unreadable"} ->
             IF c.offlineMode THEN syncPendingMessages([c EXCEPT !.offlineMode = FALSE]) ELSE c
      [] how = "notOk" -> c
      [] OTHER -> [c EXCEPT !.offlineMode = TRUE]

NoChat == [pc |-> "none", user |-> 0, assistant |-> 0, result |-> "none"]

\* a step of the client that leaves it as c
ClientStep(name, a, r, c) ==
    /\ op' = name
    /\ args' = a
    /\ ret' = r
    /\ offlineMode' = c.offlineMode
    /\ pendingMessages' = c.pendingMessages
    /\ localCache' = c.localCache
    /\ sending' = c.sending
    /\ syncing' = c.syncing
    /\ accepted' = c.accepted
    /\ UNCHANGED <<parserVars, trackerVars>>

\* the ids a chat in progress has still to draw
Reserved == IF chatting.pc \in {"sendingUser", "chatting"} THEN 1 ELSE 0

\* sendMessage(to, payload), called from the page
SendMessage ==
    /\ created + Reserved < MaxMessages
    /\ created' = created + 1
    /\ ClientStep("sendMessage", <<created + 1>>, "started", sendMessage(Client, created + 1))
    /\ UNCHANGED <<cooledDown, health, chatting, reachable>>

\* the fetch of a sendMessage settles; the chat that awaits it goes on
SendMessageSettles ==
    \E m \in sending, how \in SettlementsNow :
        /\ ClientStep("sendMessage", <<m>>, how, sendMessageSettled(Client, m, how))
        /\ chatting' =
              IF chatting.pc = "sendingUser" /\ chatting.user = m
              THEN [chatting EXCEPT !.pc = "chatting"]
              ELSE IF chatting.pc = "sendingAssistant" /\ chatting.assistant = m
              THEN [chatting EXCEPT !.pc = "returned", !.result = "success"]
              ELSE chatting
        /\ UNCHANGED <<cooledDown, health, reachable, created>>

\* chat(assistantId, message): offline it returns the fallback at once,
\* else it sends the user's message
Chat ==
    /\ chatting.pc \in {"none", "returned"}
    /\ IF offlineMode
       THEN /\ chatting' = [NoChat EXCEPT !.pc = "returned", !.result = "fallback"]
            /\ ClientStep("chat", <<>>, "fallback", Client)
            /\ UNCHANGED created
       ELSE /\ created + 2 <= MaxMessages
            /\ created' = created + 1
            /\ chatting' = [NoChat EXCEPT !.pc = "sendingUser", !.user = created + 1]
            /\ ClientStep("chat", <<created + 1>>, "started", sendMessage(Client, created + 1))
    /\ UNCHANGED <<cooledDown, health, reachable>>

\* the fetch of /mcp/chat settles: the assistant's response is sent to the
\* inbox, or the chat returns the fallback
ChatSettles ==
    /\ chatting.pc = "chatting"
    /\ \E how \in SettlementsNow :
          CASE how = "ok" ->
                   LET c == sendMessage(Client, created + 1)
                   IN  /\ created' = created + 1
                       /\ chatting' =
                             IF created + 1 \in c.sending
                             THEN [chatting EXCEPT !.pc = "sendingAssistant",
                                                   !.assistant = created + 1]
                             ELSE [chatting EXCEPT !.pc = "returned", !.result = "success",
                                                   !.assistant = created + 1]
                       /\ ClientStep("chat", <<chatting.user>>, how, c)
            [] how = "notOk" ->
                   /\ chatting' = [chatting EXCEPT !.pc = "returned", !.result = "fallback"]
                   /\ ClientStep("chat", <<chatting.user>>, "fallback", Client)
                   /\ UNCHANGED created
            [] OTHER ->
                   /\ chatting' = [chatting EXCEPT !.pc = "returned", !.result = "fallback"]
                   /\ ClientStep("chat", <<chatting.user>>, "fallback",
                                 [Client EXCEPT !.offlineMode = TRUE])
                   /\ UNCHANGED created
    /\ UNCHANGED <<cooledDown, health, reachable>>

\* checkHealth, from init or from the interval timer, past the cooldown
CheckHealth ==
    /\ health = "idle"
    /\ cooledDown
    /\ cooledDown' = FALSE
    /\ health' = "fetching"
    /\ ClientStep("checkHealth", <<>>, "started", Client)
    /\ UNCHANGED <<chatting, reachable, created>>

CheckHealthSettles ==
    /\ health = "fetching"
    /\ health' = "idle"
    /\ \E how \in SettlementsNow \ {"unreadable"} :
          ClientStep("checkHealth", <<>>, how, checkHealthSettled(Client, how))
    /\ UNCHANGED <<cooledDown, chatting, reachable, created>>

\* healthCheckCooldown has passed since lastHealthCheck
CooldownPasses ==
    /\ ~cooledDown
    /\ health = "idle"
    /\ cooledDown' = TRUE
    /\ ClientStep("cooldown", <<>>, "passed", Client)
    /\ UNCHANGED <<health, chatting, reachable, created>>

\* the window's online event
Online ==
    /\ ~offlineMode /\ pendingMessages # <<>>
    /\ ClientStep("syncPendingMessages", <<>>, "started", syncPendingMessages(Client))
    /\ UNCHANGED <<cooledDown, health, chatting, reachable, created>>

SyncSettles ==
    \E i \in 1..Len(syncing), how \in SettlementsNow \ {"unreadable"} :
        /\ ClientStep("syncPendingMessages", <<syncing[i].current>>, how, syncSettled(Client, i, how))
        /\ UNCHANGED <<cooledDown, health, chatting, reachable, created>>

\* the backend becomes reachable, or stops being reachable
BackendChanges ==
    /\ reachable' = ~reachable
    /\ ClientStep("backend", <<>>, IF reachable THEN "unreachable" ELSE "reachable", Client)
    /\ UNCHANGED <<cooledDown, health, chatting, created>>

ClientConstructed ==
    /\ offlineMode = FALSE
    /\ pendingMessages = <<>>
    /\ localCache = [inboxes |-> <<>>, pending |-> <<>>]
    /\ cooledDown = TRUE
    /\ health = "idle"
    /\ sending = {}
    /\ chatting = NoChat
    /\ syncing = <<>>
    /\ accepted = [m \in 1..(MaxMessages + 1) |-> 0]
    /\ created = 0

NextClient ==
    \/ SendMessage
    \/ SendMessageSettles
    \/ Chat
    \/ ChatSettles
    \/ CheckHealth
    \/ CheckHealthSettles
    \/ CooldownPasses
    \/ Online
    \/ SyncSettles
    \/ BackendChanges

(***************************************************************************)
(* AnalyticsTracker: addEvent, syncToEmailForAi                             *)
(***************************************************************************)
MaxEvents == 4
EventCap == 500
SaveEvery == 10
SavedCap == 200

lastOf(seq, n) == SubSeq(seq, Max2(Len(seq) - n, 0) + 1, Len(seq))

\* the ids of the events not yet synced, in order
unsyncedEvents(evts) == SelectSeq(evts, LAMBDA e : ~e.synced)
idsOf(evts) == {evts[i].id : i \in 1..Len(evts)}

\* what saveLocalEvents writes to localStorage
saveLocalEvents(evts) == lastOf(unsyncedEvents(evts), SavedCap)

\* a guard that lets a sync start while another is in flight
maySync_always(pending) == TRUE

\* the guard of syncToEmailForAi on syncPending
maySync(pending) == ~pending

\* unsyncedEvents.forEach(e => e.synced = true)
markSynced(evts, batch) ==
    [i \in 1..Len(evts) |-> IF evts[i].id \in batch THEN [evts[i] EXCEPT !.synced = TRUE] ELSE evts[i]]

\* what storeAnalytics resolves to: the backend's answer with success set,
\* the offline fallback of sendMessage, an answer with neither flag, and a
\* null answer (reading result.success then raises, and is caught)
Answers == {"success", "offline", "unflagged", "null"}

TrackerStep(name, a, r) ==
    /\ op' = name
    /\ args' = a
    /\ ret' = r
    /\ UNCHANGED <<parserVars, clientVars>>

AddEvent ==
    /\ tracked < MaxEvents
    /\ tracked' = tracked + 1
    /\ LET pushed == lastOf(Append(events, [id |-> tracked + 1, synced |-> FALSE]), EventCap)
       IN  /\ events' = pushed
           /\ stored' = IF Len(pushed) % SaveEvery = 0 THEN saveLocalEvents(pushed) ELSE stored
    /\ TrackerStep("addEvent", <<tracked + 1>>, "added")
    /\ UNCHANGED <<syncPending, storing>>

\* syncToEmailForAi, from the interval timer, up to its await
SyncToEmailForAi ==
    /\ maySync(syncPending)
    /\ unsyncedEvents(events) # <<>>
    /\ syncPending' = TRUE
    /\ storing' = Append(storing, idsOf(unsyncedEvents(events)))
    /\ TrackerStep("syncToEmailForAi", <<idsOf(unsyncedEvents(events))>>, "started")
    /\ UNCHANGED <<events, stored, tracked>>

\* a storeAnalytics request settles
StoreAnalyticsSettles ==
    \E i \in 1..Len(storing), answer \in Answers :
        /\ IF answer \in {"success", "offline"}
           THEN /\ events' = markSynced(events, storing[i])
                /\ stored' = saveLocalEvents(markSynced(events, storing[i]))
           ELSE UNCHANGED <<events, stored>>
        /\ syncPending' = FALSE
        /\ storing' = without(storing, i)
        /\ TrackerStep("syncToEmailForAi", <<storing[i]>>, answer)
        /\ UNCHANGED tracked

TrackerConstructed ==
    /\ events = <<>>
    /\ syncPending = FALSE
    /\ storing = <<>>
    /\ stored = <<>>
    /\ tracked = 0

NextTracker ==
    \/ AddEvent
    \/ SyncToEmailForAi
    \/ StoreAnalyticsSettles

NewlyConstructed ==
    /\ lodCache = NewParser.lodCache
    /\ headerCache = NewParser.headerCache
    /\ calls = 0
    /\ op = "new"
    /\ args = <<>>
    /\ ret = Undefined
    /\ threw = FALSE

Next ==
    \/ IsQAStone
    \/ ParseHeader
    \/ ParseFortune
    \/ ExtractLOD
    \/ ExtractLODsUpTo
    \/ AssessRequiredLOD
    \/ ProgressiveLoad
    \/ EstimateTokens
    \/ GetTokenSavings
    \/ BuildStone
    \/ ClearCache

(***************************************************************************)
(* Spec: a page session, calls made on one parser in any order             *)
(***************************************************************************)
Init ==
    /\ NewlyConstructed /\ input = Session
    /\ ClientConstructed /\ reachable = TRUE
    /\ TrackerConstructed

Spec == Init /\ [][Next]_vars

(***************************************************************************)
(* SpecOnce: one drawn argument, one call on a newly constructed parser    *)
(* (for drawn options: buildStone, then one call on the stone built)       *)
(***************************************************************************)
InitOnce ==
    /\ NewlyConstructed
    /\ ClientConstructed /\ reachable = TRUE
    /\ TrackerConstructed
    /\ \/ \E o \in BuildOptions : input = [kind |-> "options", options |-> o]
       \/ \E v \in PlainTexts \cup NonStrings \cup HandMadeStones \cup HeaderStones \cup LodStones :
              input = [kind |-> "text", text |-> v]
       \/ \E h \in AssessHeaders : input = [kind |-> "header", header |-> h]

SpecOnce == InitOnce /\ [][Next]_vars

(***************************************************************************)
(* SpecClient: the client of a page, its calls and the settling of its     *)
(* requests in any order. FairClient: every request in flight settles,     *)
(* and the interval timer keeps calling checkHealth.                       *)
(***************************************************************************)
InitClient ==
    /\ lodCache = NewParser.lodCache /\ headerCache = NewParser.headerCache
    /\ calls = 0 /\ threw = FALSE /\ input = [kind |-> "client"]
    /\ op = "new" /\ args = <<>> /\ ret = "constructed"
    /\ ClientConstructed /\ reachable \in BOOLEAN
    /\ TrackerConstructed

SpecClient == InitClient /\ [][NextClient]_vars

FairClient ==
    /\ SpecClient
    /\ WF_vars(CheckHealth) /\ WF_vars(CooldownPasses) /\ WF_vars(CheckHealthSettles)
    /\ WF_vars(SendMessageSettles) /\ WF_vars(ChatSettles) /\ WF_vars(SyncSettles)

(***************************************************************************)
(* SpecTracker: addEvent calls and timer-triggered syncs in any order      *)
(***************************************************************************)
InitTracker ==
    /\ lodCache = NewParser.lodCache /\ headerCache = NewParser.headerCache
    /\ calls = 0 /\ threw = FALSE /\ input = [kind |-> "tracker"]
    /\ op = "new" /\ args = <<>> /\ ret = "constructed"
    /\ ClientConstructed /\ reachable = TRUE
    /\ TrackerConstructed

SpecTracker == InitTracker /\ [][NextTracker]_vars

(***************************************************************************)
(* Properties                                                              *)
(***************************************************************************)
\* the text begins, after white space only, with the open marker
MarkerAfterWhiteSpace(v) ==
    /\ v.type = "string"
    /\ \E k \in 0..Len(v.val) :
          /\ \A i \in 1..k : v.val[i] \in WhiteSpace
          /\ k + Len(OpenMarker) <= Len(v.val)
          /\ \A i \in 1..Len(OpenMarker) : v.val[k + i] = OpenMarker[i]

OnBuiltStone == input.kind = "options" /\ calls = 2
ContentOps == {"extractLOD", "extractLODsUpTo", "progressiveLoad", "estimateTokens", "getTokenSavings"}

\* C1 (round trip): extractLOD at level 2 of a stone built without the lods
\* option returns exactly the content the stone was built from.
C1_RoundTrip ==
    (OnBuiltStone /\ ~truthy(input.options.lods) /\ op = "extractLOD" /\ args.level = 2)
        => ret = input.options.content

\* C2 (cache consistency): whatever calls came before on the parser,
\* extractLOD(content, level) returns what a parser with empty caches
\* computes for the same content and level.
C2_ExtractEqualsFresh ==
    op = "extractLOD" => ret = extractLOD(NewParser, args.content, args.level).ret

\* C3 (no stale header): whatever calls came before on the parser,
\* parseHeader(content) returns the header fields of that content itself.
C3_HeaderOfItsContent ==
    (op = "parseHeader" /\ ~threw) => ret = computeHeader(args.content.val)

\* C4 (token accounting identity): for a stone and a loadedLevel in 0..3,
\* fullTokens >= loadedTokens >= headerTokens and saved = fullTokens - loadedTokens.
C4_TokenIdentity ==
    (op = "getTokenSavings" /\ isQAStone(args.content)) =>
        /\ ret.fullTokens >= ret.loadedTokens
        /\ ret.loadedTokens >= ret.headerTokens
        /\ ret.saved = ret.fullTokens - ret.loadedTokens

\* C5 (detection): isQAStone is true of every stone buildStone returns, false
\* of every string that does not begin, after white space, with the open
\* marker, and false, without raising, of the empty string and of every value
\* that is no string.
C5_Detection ==
    op = "isQAStone" =>
        /\ ~threw
        /\ OnBuiltStone => ret = TRUE
        /\ ~MarkerAfterWhiteSpace(args.content) => ret = FALSE
C5_Witness ==
    /\ op = "isQAStone"
    /\ OnBuiltStone
    /\ input.options.content = Str(<<" ", "a">>)
    /\ ret = TRUE

\* C6 (header completeness): parseHeader of a stone built with glow_channel c
\* returns a header whose glow_channel is c.
C6_ChannelOfBuiltStone ==
    (op = "parseHeader" /\ ~threw) =>
        /\ args.content = BaseStone => ret.glow_channel = BaseOptions.glow_channel
        /\ args.content = DataStone => ret.glow_channel = Str(C_data)

\* C7 (monotonic assessment): all else equal, the level assessed with
\* needsFullContext enabled is at least the level assessed with it disabled.
C7_MonotonicInFullContext ==
    (op = "assessRequiredLOD" /\ args.taskContext.needsFullContext) =>
        LET disabled == assessRequiredLOD(args.header,
                            [args.taskContext EXCEPT !.needsFullContext = FALSE]).level
        IN  /\ isNumber(ret.level)
            /\ isNumber(disabled)
            /\ numberOf(ret.level) >= numberOf(disabled)

\* C8 (errors): parseHeader raises exactly when the content is not a stone;
\* on a string, extractLOD, extractLODsUpTo, progressiveLoad, estimateTokens,
\* getTokenSavings and buildStone return without raising, also on a stone
\* cut off past its header.
C8_OnlyParseHeaderRaises ==
    /\ op = "parseHeader" => (threw <=> ~MarkerAfterWhiteSpace(args.content))
    /\ (op \in ContentOps /\ args.content.type = "string") => ~threw
    /\ (op = "buildStone" /\ args.options.content.type = "string") => ~threw
C8_Witness ==
    /\ op = "parseHeader"
    /\ args.content = Str(<<" ", "a">>)
    /\ threw

\* C9 (savings of plain text): getTokenSavings of content that is not a stone
\* returns saved, percentage, headerTokens, loadedTokens and fullTokens, each
\* 0, and leaves the caches unchanged.
C9_AllZero ==
    [][(op' = "getTokenSavings" /\ ~isQAStone(args'.content)) =>
          /\ \A f \in {"saved", "percentage", "headerTokens", "loadedTokens", "fullTokens"} :
                f \in DOMAIN ret' /\ ret'[f] = 0
          /\ lodCache' = lodCache
          /\ headerCache' = headerCache]_vars

\* C10 (pass-through): extractLOD of content that is not a stone returns the
\* content unchanged at every level and writes nothing to the LOD cache.
C10_PassThrough ==
    [][(op' = "extractLOD" /\ ~MarkerAfterWhiteSpace(args'.content)) =>
          /\ ret' = args'.content
          /\ ~threw'
          /\ lodCache' = lodCache]_vars
C10_Witness ==
    /\ op = "extractLOD"
    /\ ~MarkerAfterWhiteSpace(args.content)
    /\ ret = args.content
    /\ lodCache # <<>>

\* the text has a line beginning with the marker of level n
HasLodBlock(s, n) ==
    LET lines == split(s, NL)
    IN  \E i \in 1..Len(lines) : startsWith(lines[i], lodMarkerOf(n))

\* C11 (absence as empty): extractLOD of a stone at a level that has no LOD
\* block returns the empty string, and the keys of extractLODsUpTo(stone,
\* maxLevel) are exactly the levels in 0..maxLevel whose text is not empty.
C11_AbsenceAsEmpty ==
    /\ (op = "extractLOD" /\ isQAStone(args.content)
            /\ ~HasLodBlock(args.content.val, args.level)) => ret = Str(<<>>)
    /\ (op = "extractLODsUpTo" /\ isQAStone(args.content)) =>
            DOMAIN ret = {l \in 0..args.level : computeLOD(args.content.val, l) # <<>>}

RECURSIVE BlankLineJoined(_, _)
\* the texts of the levels 0..l of a level map, lowest level first, one
\* blank line between two texts
BlankLineJoined(lods, l) ==
    IF l < 0 THEN <<>>
    ELSE LET lower == BlankLineJoined(lods, l - 1)
         IN  IF l \notin DOMAIN lods THEN lower
             ELSE IF lower = <<>> THEN lods[l].val
             ELSE lower \o <<NL, NL>> \o lods[l].val

\* C12 (progressive load): for content that is not a stone the result is
\* {content: the original, loadedLevel: -1, isStone: false}; for a stone it
\* holds the header parseHeader gives, the map of the levels 0..maxLevel
\* whose extractLOD text is not empty, and as content those texts, lowest
\* level first, joined by one blank line.
C12_ProgressiveLoad ==
    op = "progressiveLoad" =>
        IF ~MarkerAfterWhiteSpace(args.content)
        THEN /\ DOMAIN ret = {"content", "loadedLevel", "isStone"}
             /\ ret.content = args.content
             /\ ret.loadedLevel = 0 - 1
             /\ ret.isStone = FALSE
        ELSE /\ DOMAIN ret = {"content", "loadedLevel", "isStone", "header", "lods"}
             /\ ret.isStone = TRUE
             /\ ret.loadedLevel = args.level
             /\ ret.header = parseHeader(Parser, args.content).ret
             /\ DOMAIN ret.lods =
                   {l \in 0..args.level : extractLOD(Parser, args.content, l).ret.val # <<>>}
             /\ \A l \in DOMAIN ret.lods : ret.lods[l] = extractLOD(Parser, args.content, l).ret
             /\ ret.content = Str(BlankLineJoined(ret.lods, args.level))
C12_Witness ==
    /\ op = "progressiveLoad"
    /\ MarkerAfterWhiteSpace(args.content)
    /\ args.level = 3
    /\ DOMAIN ret.lods = {0, 1}
    /\ ret.lods[0] # ret.lods[1]

\* C13 (spawn helper): assessRequiredLOD returns spawnHelper = true exactly
\* when the fortune's complexity is "complex" and header.lod_count >= 4,
\* whatever the channel, the stone type and the task context.
C13_SpawnHelper ==
    op = "assessRequiredLOD" =>
        (ret.spawnHelper <=>
            (args.header.fortune = fortuneOf(X_complex) /\ args.header.lod_count >= 4))
C13_Witness ==
    /\ op = "assessRequiredLOD"
    /\ args.taskContext.quickAssessment
    /\ args.header.lod_count = 4
    /\ ret.spawnHelper = TRUE
    /\ ret.level = NumberOf(0)

\* the level the rules give, applied in order, for a header and task context
RuleLevel(h, c) ==
    LET ch == h.glow_channel
        simple == h.fortune = fortuneOf(X_simple)
        complex == h.fortune = fortuneOf(X_complex)
        base == IF ch \in {Str(C_task), Str(C_query)} THEN 0
                ELSE IF ch = Str(C_data) THEN 2
                ELSE 1
        afterComplexity == IF simple THEN (IF base < 0 THEN base ELSE 0)
                           ELSE IF complex THEN (IF base > 2 THEN base ELSE 2)
                           ELSE base
        afterFull == IF c.needsFullContext /\ afterComplexity < 2 THEN 2 ELSE afterComplexity
        afterQuick == IF c.quickAssessment THEN 0 ELSE afterFull
    IN  IF h.stone_type = Str(C_handoff) /\ ~simple /\ afterQuick < 1 THEN 1 ELSE afterQuick

\* C14 (assessment rules): for every channel (known, unknown, missing),
\* complexity (or none), lod_count, stone type, needsFullContext and
\* quickAssessment, the level of assessRequiredLOD is the channel default
\* (task 0, context 1, handoff 1, query 0, data 2, otherwise 1), then
\* simple -> min(level, 0), complex -> max(level, 2), needsFullContext ->
\* max(level, 2), quickAssessment -> 0, and stone type handoff with a
\* complexity other than simple -> max(level, 1).
C14_RulesInOrder ==
    op = "assessRequiredLOD" =>
        /\ isNumber(ret.level)
        /\ numberOf(ret.level) = RuleLevel(args.header, args.taskContext)

\* C15 (quick assessment): with taskContext.quickAssessment set the level is
\* 1 when the stone type is "handoff" and the complexity is not "simple",
\* and 0 in every other case.
C15_QuickOverride ==
    (op = "assessRequiredLOD" /\ args.taskContext.quickAssessment) =>
        ret.level = IF /\ args.header.stone_type = Str(C_handoff)
                       /\ args.header.fortune # fortuneOf(X_simple)
                    THEN NumberOf(1) ELSE NumberOf(0)
C15_Witness ==
    /\ op = "assessRequiredLOD"
    /\ args.taskContext = [needsFullContext |-> TRUE, quickAssessment |-> TRUE]
    /\ args.header.glow_channel = Str(C_data)
    /\ args.header.fortune = fortuneOf(X_complex)
    /\ args.header.stone_type # Str(C_handoff)
    /\ ret.level = NumberOf(0)

\* a line that ends a LOD block: a lone separator, a LOD marker of any
\* level, the close marker
IsTerminator(line) ==
    trim(line) = <<BoxLine>> \/ startsWith(line, LodPrefix) \/ line = CloseMarker

\* the text after the marker on the first line beginning LOD-n:, up to the
\* next terminator line, trimmed; empty when no line begins LOD-n:
FirstBlock(s, n) ==
    LET lines == split(s, NL)
        starts == {i \in 1..Len(lines) : startsWith(lines[i], lodMarkerOf(n))}
    IN  IF starts = {} THEN <<>>
        ELSE LET first == SetMin(starts)
                 ends == {j \in (first + 1)..Len(lines) : IsTerminator(lines[j])}
                 last == IF ends = {} THEN Len(lines) ELSE SetMin(ends) - 1
             IN  trim(join(<<substringFrom(lines[first], Len(lodMarkerOf(n)))>>
                           \o SubSeq(lines, first + 1, last), <<NL>>))

\* C16 (first terminator): extractLOD(stone, n) is the trimmed text from
\* after the marker of the first line beginning LOD-n: up to the next lone
\* separator line, the next line beginning LOD- (of any level, n included)
\* or the close marker line, whichever comes first.
C16_EndsAtFirstTerminator ==
    (op = "extractLOD" /\ isQAStone(args.content)) =>
        ret = Str(FirstBlock(args.content.val, args.level))

\* the level map buildStone works from: the lods option, or the heuristic
LodLevelsOf(options) ==
    IF truthy(options.lods) THEN options.lods.val ELSE generateLODs(options.content.val)

\* C17 (declared count): the lod_count buildStone writes in the header is the
\* number of levels among 0..3 with non-empty text, which is the number of
\* LOD blocks in the envelope, for heuristic and for caller-supplied lods.
C17_DeclaredCount ==
    (op = "buildStone" /\ ~threw) =>
        LET lines == split(ret.val, NL)
            declared == computeHeader(ret.val).lod_count
            blocks == {i \in 1..Len(lines) : startsWith(lines[i], LodPrefix)}
            lodLevels == LodLevelsOf(args.options)
            levels == {l \in 0..3 : l \in DOMAIN lodLevels /\ lodLevels[l].val # <<>>}
        IN  /\ declared = Cardinality(levels)
            /\ declared = Cardinality(blocks)

\* the lines parseHeader scans: those with index below the scan bound, up
\* to and including the first whose trimmed text is the separator
ScannedLines(s) ==
    LET lines == split(s, NL)
        bound == IF Len(lines) < HeaderScanLines THEN Len(lines) ELSE HeaderScanLines
        separators == {i \in 1..bound : trim(lines[i]) = <<BoxLine>>}
    IN  SubSeq(lines, 1, IF separators = {} THEN bound ELSE SetMin(separators))

\* C18 (raw header): raw_header holds every line parseHeader scanned: up to
\* and including the separator when one is found within the scan bound, all
\* the lines scanned when none is.
C18_RawHeader ==
    (op = "parseHeader" /\ ~threw) =>
        ret.raw_header = Str(join(ScannedLines(args.content.val), <<NL>>))

\* the lines that precede the first separator, among those below the scan bound
LinesBeforeSeparator(s) ==
    LET scanned == ScannedLines(s)
    IN  IF scanned # <<>> /\ trim(scanned[Len(scanned)]) = <<BoxLine>>
        THEN SubSeq(scanned, 1, Len(scanned) - 1) ELSE scanned

\* the trimmed value of the last of the lines whose key is k, if there is one
ValueOfKey(lines, k) ==
    LET keyed == {i \in 1..Len(lines) :
                     LET line == trim(lines[i])
                         colon == indexOf(line, ":")
                     IN  colon > 0 /\ trim(substring(line, 0, colon)) = k}
    IN  IF keyed = {} THEN Null
        ELSE LET i == CHOOSE j \in keyed : \A m \in keyed : m <= j
                 line == trim(lines[i])
             IN  Str(trim(substringFrom(line, indexOf(line, ":") + 1)))

\* the number a lod_count value stands for: 0 unless it is a run of digits
CountOfValue(v) ==
    IF v.type = "string" /\ v.val # <<>> /\ \A i \in 1..Len(v.val) : isDigit(v.val[i])
    THEN digitsValue(v.val, 1, 0) ELSE 0

DeclaredCounts == {<<"0">>, <<"7">>, <<"x">>}

\* the text with the value of every lod_count line replaced by v
WithLodCount(s, v) ==
    LET lines == split(s, NL)
        key == K_lod_count \o <<":">>
    IN  join([i \in 1..Len(lines) |->
                 IF startsWith(lines[i], key) THEN key \o <<" ">> \o v ELSE lines[i]], <<NL>>)

\* C20 (advisory count): on parsers with empty caches, stones that differ
\* only in the value of the lod_count line give the same extractLOD result
\* at every level and the same extractLODsUpTo result at every maxLevel.
C20_CountIsAdvisory ==
    /\ (op = "extractLOD" /\ isQAStone(args.content)) =>
          \A v \in DeclaredCounts :
              ret = extractLOD(NewParser, Str(WithLodCount(args.content.val, v)), args.level).ret
    /\ (op = "extractLODsUpTo" /\ isQAStone(args.content)) =>
          \A v \in DeclaredCounts :
              ret = extractLODsUpTo(NewParser, Str(WithLodCount(args.content.val, v)), args.level).ret
C20_Witness ==
    /\ op = "extractLODsUpTo"
    /\ isQAStone(args.content)
    /\ args.level = 3
    /\ computeHeader(args.content.val).lod_count = 1
    /\ DOMAIN ret = {0, 1}
    /\ computeHeader(WithLodCount(args.content.val, <<"7">>)).lod_count = 7

\* the bits of k * h + code wrapped to 32 bits, for a small multiplier k
TimesPlus(k, h, code) ==
    LET lo == h.lo * k + code
    IN  [lo |-> lo % Half, hi |-> (h.hi * k + lo \div Half) % Half]

RECURSIVE Accumulated(_, _, _, _, _)
\* the accumulator after the characters i..j of s, each updating h to
\* k * h + code
Accumulated(k, s, i, j, h) ==
    IF i > j THEN h
    ELSE IF i = j THEN TimesPlus(k, h, charCodeAt(s[i]))
    ELSE LET first == Accumulated(k, s, i, (i + j) \div 2, h)
         IN  IF first \in [lo : Nat, hi : Nat]
             THEN Accumulated(k, s, (i + j) \div 2 + 1, j, first) ELSE first

\* the absolute value of the accumulator as eight hexadecimal digits
EightHexDigits(h) ==
    LET negative == h.hi >= Half \div 2
        lo == IF negative THEN (Half - h.lo) % Half ELSE h.lo
        hi == IF negative THEN (Half - 1 - h.hi + (IF h.lo = 0 THEN 1 ELSE 0)) % Half ELSE h.hi
    IN  hex4(hi) \o hex4(lo)

\* the border_hash line of the stone a buildStone call returned
BorderHashBuilt == computeHeader(ret.val).border_hash

\* C21 (hash step, as stated): each character updates the accumulator to
\* h*31 - h + code truncated to 32 bits, and border_hash is the absolute
\* value of the final accumulator in hexadecimal, padded to 8 digits.
C21_HashStep ==
    (op = "buildStone" /\ ~threw) =>
        BorderHashBuilt =
            Str(EightHexDigits(Accumulated(30, args.options.content.val, 1, Len(args.options.content.val), [hi |-> 0, lo |-> 0])))

\* C21 (hash step, amended): each character updates the accumulator to
\* h*31 + code truncated to 32 bits, the value of ((h<<5) - h) + code, and
\* border_hash is the absolute value of the final accumulator in
\* hexadecimal, padded to 8 digits.
C21_HashStepAmended ==
    (op = "buildStone" /\ ~threw) =>
        BorderHashBuilt =
            Str(EightHexDigits(Accumulated(31, args.options.content.val, 1, Len(args.options.content.val), [hi |-> 0, lo |-> 0])))
C21_Witness ==
    /\ op = "buildStone"
    /\ args.options.content.val = <<"a", "a", "a", "a", "a", "a", "a">>
    /\ BorderHashBuilt = Str(<<"4", "9", "b", "8", "f", "f", "f", "f">>)

\* C22 (border hash): for every content, the empty string (00000000) and
\* contents whose accumulator wraps to the most negative 32-bit value
\* included, the border_hash buildStone writes is exactly 8 characters, each
\* in 0-9a-f, and is the same for every channel, supplied lods and build
\* time the content is built with.
C22_BorderHash ==
    (op = "buildStone" /\ ~threw) =>
        /\ BorderHashBuilt.type = "string"
        /\ Len(BorderHashBuilt.val) = 8
        /\ \A i \in 1..Len(BorderHashBuilt.val) : \E k \in 1..16 : Hex[k] = BorderHashBuilt.val[i]
        /\ args.options.content.val = <<>> => BorderHashBuilt.val = [i \in 1..8 |-> "0"]
        /\ \A o \in BuildOptions, now \in Clock :
              o.content = args.options.content =>
                  computeHeader(buildStone(o, now).ret.val).border_hash = BorderHashBuilt
C22_Witness ==
    /\ op = "buildStone"
    /\ args.options.content.val = <<"G", "y", "d", "Z", "G", "_">>
    /\ args.options.glow_channel = Str(C_data)
    /\ truthy(args.options.lods)
    /\ BorderHashBuilt = Str(<<"8", "0", "0", "0", "0", "0", "0", "0">>)

\* the words of s that are no longer than the longest keyword: the maximal
\* runs of letters, digits and underscores
ShortWords(s) ==
    LET starts == {i \in 1..Len(s) : s[i] \in WordChars /\ (i = 1 \/ s[i - 1] \notin WordChars)}
        ends(i) == {j \in i..Min2(Len(s), i + 8) :
                       /\ \A k \in i..j : s[k] \in WordChars
                       /\ (j = Len(s) \/ s[j + 1] \notin WordChars)}
    IN  UNION {{SubSeq(s, i, j) : j \in ends(i)} : i \in starts}

\* the category of a content: the first, in the order repo, api, database,
\* ui, test, one of whose keywords is a word of the content
CategoryOf(s) ==
    LET words == ShortWords(toLowerCase(s))
    IN  IF words \cap W_repo # {} THEN <<"r", "e", "p", "o">>
        ELSE IF words \cap W_api # {} THEN <<"a", "p", "i">>
        ELSE IF words \cap W_database # {} THEN <<"d", "a", "t", "a", "b", "a", "s", "e">>
        ELSE IF words \cap W_ui # {} THEN <<"u", "i">>
        ELSE IF words \cap W_test # {} THEN <<"t", "e", "s", "t">>
        ELSE <<"g", "e", "n", "e", "r", "a", "l">>

\* the word count of a content: the pieces between its runs of white space
WordCountOf(s) ==
    1 + Cardinality({i \in 1..Len(s) :
                        s[i] \in WhiteSpace /\ (i = Len(s) \/ s[i + 1] \notin WhiteSpace)})

ComplexityOf(s) ==
    IF WordCountOf(s) > 200 THEN X_complex
    ELSE IF WordCountOf(s) > 50 THEN X_medium
    ELSE X_simple

\* C23 (fortune): the fortune buildStone writes is channel:category:complexity,
\* channel the glow_channel given, category the first of repo, api,
\* database, ui, test with a keyword that is a word of the content, else
\* general, complexity complex above 200 words, medium above 50, simple
\* otherwise; parseFortune of it returns the three components.
C23_Fortune ==
    (op = "buildStone" /\ ~threw) =>
        LET content == args.options.content.val
            channel == IF args.options.glow_channel.type = "undefined"
                       THEN C_context ELSE args.options.glow_channel.val
            fortune == computeHeader(ret.val).fortune
        IN  /\ fortune = Str(channel \o <<":">> \o CategoryOf(content) \o <<":">>
                             \o ComplexityOf(content))
            /\ parseFortune(fortune) =
                  [channel |-> Str(channel), category |-> Str(CategoryOf(content)),
                   complexity |-> Str(ComplexityOf(content))]
C23_Witness ==
    /\ op = "buildStone"
    /\ args.options.content.val = <<"s", "q", "l", "\n", "u", "i">>
    /\ parseFortune(computeHeader(ret.val).fortune).category =
           Str(<<"d", "a", "t", "a", "b", "a", "s", "e">>)

\* C24 (level 0 present): extractLOD at level 0 of a stone buildStone made
\* from non-empty content, with generated or supplied lods, finds a LOD-0
\* block in the envelope and returns a non-empty text.
C24_LevelZeroPresent ==
    (OnBuiltStone /\ op = "extractLOD" /\ args.level = 0 /\ input.options.content.val # <<>>)
        => /\ HasLodBlock(args.content.val, 0)
           /\ ret.val # <<>>

\* every entry of cache `before` is in cache `after`, unchanged
Kept(before, after) ==
    \A k \in DOMAIN before : k \in DOMAIN after /\ after[k] = before[k]

CacheFreeOps == {"isQAStone", "parseFortune", "assessRequiredLOD", "estimateTokens", "buildStone"}

\* C25 (caches only grow): a call other than clearCache leaves every entry
\* of the header cache and of the LOD cache in place with its value;
\* isQAStone, parseFortune, assessRequiredLOD, estimateTokens and buildStone
\* leave both caches as they were; clearCache empties both.
C25_CachesGrow ==
    [][/\ op' = "clearCache" => headerCache' = <<>> /\ lodCache' = <<>>
       /\ op' # "clearCache" => Kept(headerCache, headerCache') /\ Kept(lodCache, lodCache')
       /\ op' \in CacheFreeOps => headerCache' = headerCache /\ lodCache' = lodCache]_vars
\* a second stone parsed under the key of the first gets the first's entry
C25_Witness ==
    /\ input.kind = "session" /\ calls = 2
    /\ op = "parseHeader" /\ ~threw
    /\ headerCache[headerCacheKey(args.content.val)] = ret
    /\ ret # computeHeader(args.content.val)

\* C26 (no level 3 without lods): a stone buildStone made without the lods
\* option has no LOD-3 block, the lod_count of its parsed header is at
\* most 3, and assessRequiredLOD on that header returns spawnHelper = false
\* under every task context.
C26_NoLevelThree ==
    (op = "buildStone" /\ ~threw /\ ~truthy(args.options.lods)) =>
        LET header == computeHeader(ret.val)
        IN  /\ ~HasLodBlock(ret.val, 3)
            /\ computeLOD(ret.val, 3) = <<>>
            /\ header.lod_count <= 3
            /\ \A c \in TaskContexts : ~assessRequiredLOD(header, c).spawnHelper

\* the number of places of seq that hold m
Occurrences(seq, m) == Cardinality({i \in 1..Len(seq) : seq[i] = m})
\* the number of places, in the runs of syncPendingMessages in progress,
\* that hold m
Held(m) ==
    Cardinality({<<i, j>> \in (1..Len(syncing)) \X (0..MaxMessages) :
                    \/ j = 0 /\ syncing[i].current = m
                    \/ j \in 1..Len(syncing[i].rest) /\ syncing[i].rest[j] = m})
\* m was stored and queued by sendMessage
Queued(m) == Occurrences(localCache.inboxes, m) > 0

\* C27 (offline queue): a message that was queued is in exactly one place,
\* in pendingMessages, held by one run of syncPendingMessages in progress,
\* or accepted by the backend with an ok response, and is accepted at most
\* once.
C27_OnePlace ==
    \A m \in 1..created :
        Queued(m) =>
            /\ Occurrences(pendingMessages, m) + Held(m) + (IF accepted[m] > 0 THEN 1 ELSE 0) = 1
            /\ accepted[m] <= 1

\* C28 (eventual delivery): if from some point on the backend stays
\* reachable, pendingMessages becomes empty and stays empty.
C28_EventualDelivery ==
    <>[]reachable => <>[](pendingMessages = <<>>)

\* C29 (offline fallback): when chat returns its offline fallback, the
\* user's message is in the local cache and in pendingMessages.
C29_FallbackSaved ==
    [][(chatting'.result = "fallback" /\ chatting'.pc = "returned" /\ chatting.pc # "returned")
          => /\ Occurrences(localCache'.inboxes, chatting'.user) > 0
             /\ Occurrences(pendingMessages', chatting'.user) > 0]_vars

\* the ids of the events of evts that are synced
SyncedIds(evts) == {evts[i].id : i \in {j \in 1..Len(evts) : evts[j].synced}}

====
